---- MODULE Spec2Model ----
(***************************************************************************)
(* A model of src/script.py (Happy Crash Detective): the summarizer        *)
(* parse_gdb_output, the launch-mode invoker run_gdb and the entry point   *)
(* main.                                                                   *)
(*                                                                         *)
(* A text (Python str) is a sequence of one-character strings, so that     *)
(* substring tests, prefix tests and the frame regular expression are      *)
(* computed on characters as the code computes them.  A report is the      *)
(* sequence of the pieces the code appends to `result`: each piece is a    *)
(* record [k |-> the fixed text of the piece, v |-> the text formatted     *)
(* into it].  Emoji and markdown decoration of the fixed texts are left    *)
(* out of k.                                                               *)
(***************************************************************************)
EXTENDS Integers, Sequences, FiniteSets, TLC

VARIABLES
    pc,               \* position of the program
    input,            \* how the text handed to parse_gdb_output was assembled
    output,           \* the text returned by run_gdb / given to parse_gdb_output
    signal_detected,  \* parse_gdb_output: local signal_detected (<<>> is None)
    frames,           \* parse_gdb_output: local frames (re.findall result)
    user_frames,      \* parse_gdb_output: local user_frames
    library_frames,   \* parse_gdb_output: local library_frames
    report,           \* the value parse_gdb_output returned
    argv,             \* sys.argv[1:]
    cmd,              \* main: local cmd
    spawn_calls,      \* number of subprocess.run invocations made by run_gdb
    proc,             \* the external debugger process
    elapsed,          \* seconds the debugger process has been awaited
    raised,           \* the exception subprocess.run raised inside run_gdb
    stdout,           \* captured standard output of the debugger
    stderr,           \* captured standard error of the debugger
    printed,          \* what the program printed, in order
    uncaught,         \* the exception that left main uncaught
    exit_status       \* the exit status of the program (-1 while running)

vars == <<pc, input, output, signal_detected, frames, user_frames,
          library_frames, report, argv, cmd, spawn_calls, proc, elapsed,
          raised, stdout, stderr, printed, uncaught, exit_status>>

parse_vars == <<signal_detected, frames, user_frames, library_frames, report>>
main_vars == <<argv, cmd, spawn_calls, proc, elapsed, raised, stdout, stderr,
               printed, uncaught, exit_status>>

-----------------------------------------------------------------------------
(* Bounds of the model *)

\* most frame lines of a generated backtrace
MaxFrames == 5
\* most marker chunks of a generated frameless text
MaxChunks == 2
\* most command-line arguments
MaxArgs == 2

-----------------------------------------------------------------------------
(* Text primitives (Python str operations) *)

Min(S) == CHOOSE x \in S : \A y \in S : x <= y
Max(S) == CHOOSE x \in S : \A y \in S : x >= y

\* s[i], or "" beyond the end of the text
At(s, i) == IF i \in 1..Len(s) THEN s[i] ELSE ""

\* `sub in s`
Contains(sub, s) ==
    \E i \in 1..(Len(s) - Len(sub) + 1) : SubSeq(s, i, i + Len(sub) - 1) = sub

\* s.startswith(pre)
StartsWith(s, pre) == Len(pre) <= Len(s) /\ SubSeq(s, 1, Len(pre)) = pre

\* character classes of the re module: \d, \s, [0-9a-fA-F]
Digit == {"0","1","2","3","4","5","6","7","8","9"}
Space == {" ", "\n", "\t", "\r", "\f"}
Hex == Digit \cup {"a","b","c","d","e","f","A","B","C","D","E","F"}

\* first index >= i whose character is not in class (Len(s)+1 if none)
RECURSIVE Skip(_, _, _)
Skip(s, i, class) ==
    IF i <= Len(s) /\ s[i] \in class THEN Skip(s, i + 1, class) ELSE i

\* first index >= i whose character is in class (Len(s)+1 if none)
RECURSIVE SkipUntil(_, _, _)
SkipUntil(s, i, class) ==
    IF i <= Len(s) /\ s[i] \notin class THEN SkipUntil(s, i + 1, class) ELSE i

\* s.strip()
Strip(s) ==
    LET keep == {i \in 1..Len(s) : s[i] \notin Space}
    IN  IF keep = {} THEN <<>> ELSE SubSeq(s, Min(keep), Max(keep))

\* int(digits)
RECURSIVE IntOf(_)
IntOf(d) ==
    IF d = <<>> THEN 0
    ELSE 10 * IntOf(SubSeq(d, 1, Len(d) - 1))
         + (CHOOSE n \in 0..9 : <<"0","1","2","3","4","5","6","7","8","9">>[n + 1] = d[Len(d)])

\* str(n) for n >= 0
RECURSIVE StrOf(_)
StrOf(n) ==
    IF n < 10 THEN << <<"0","1","2","3","4","5","6","7","8","9">>[n + 1] >>
    ELSE StrOf(n \div 10) \o << <<"0","1","2","3","4","5","6","7","8","9">>[(n % 10) + 1] >>

-----------------------------------------------------------------------------
(* FRIENDLY_SIGNALS, in the insertion order of the dict *)

FRIENDLY_SIGNALS == <<
    [sig |-> <<"S","I","G","S","E","G","V">>, desc |-> "Segmentation fault (tried to access memory that doesn't belong to you)"],
    [sig |-> <<"S","I","G","A","B","R","T">>, desc |-> "Abort signal (program decided to quit unexpectedly)"],
    [sig |-> <<"S","I","G","F","P","E">>,  desc |-> "Math error (division by zero or floating point issue)"],
    [sig |-> <<"S","I","G","I","L","L">>,  desc |-> "Illegal instruction (CPU didn't understand your code)"],
    [sig |-> <<"S","I","G","B","U","S">>,  desc |-> "Bus error (misaligned memory access)"],
    [sig |-> <<"S","I","G","T","R","A","P">>, desc |-> "Trace/breakpoint trap (debugger is watching)"],
    [sig |-> <<"S","I","G","S","Y","S">>,  desc |-> "Bad system call (wrong number to the system)"] >>

\* FRIENDLY_SIGNALS.get(sig, 'Unknown error happened!')
FriendlyGet(sig) ==
    LET hit == {i \in 1..Len(FRIENDLY_SIGNALS) : FRIENDLY_SIGNALS[i].sig = sig}
    IN  IF hit = {} THEN "Unknown error happened!"
        ELSE FRIENDLY_SIGNALS[Min(hit)].desc

\* the loop without its break: the last name found wins
DetectSignal_nobreak(text) ==
    LET hits == {i \in 1..Len(FRIENDLY_SIGNALS) : Contains(FRIENDLY_SIGNALS[i].sig, text)}
    IN  IF hits = {} THEN <<>> ELSE FRIENDLY_SIGNALS[Max(hits)].sig

\* for sig, desc in FRIENDLY_SIGNALS.items(): if sig in output: ...; break
DetectSignal(text) ==
    LET hits == {i \in 1..Len(FRIENDLY_SIGNALS) : Contains(FRIENDLY_SIGNALS[i].sig, text)}
    IN  IF hits = {} THEN <<>> ELSE FRIENDLY_SIGNALS[Min(hits)].sig

-----------------------------------------------------------------------------
(* The exit-code marker *)

ExitMarker == <<"e","x","i","t","e","d"," ","w","i","t","h"," ","c","o","d","e">>

\* the search that returns the digits of the rightmost marker
ExitCodeSearch_last(text) ==
    LET pat == ExitMarker \o <<" ">>
        at == {i \in 1..(Len(text) - Len(pat) + 1) :
                 /\ SubSeq(text, i, i + Len(pat) - 1) = pat
                 /\ At(text, i + Len(pat)) \in Digit}
    IN  IF at = {} THEN <<>>
        ELSE LET d == Max(at) + Len(pat)
             IN  SubSeq(text, d, Skip(text, d, Digit) - 1)

\* re.search(r'exited with code (\d+)', output).group(1), or <<>> for None:
\* the digits of the leftmost marker that is followed by a space and a digit
ExitCodeSearch(text) ==
    LET pat == ExitMarker \o <<" ">>
        at == {i \in 1..(Len(text) - Len(pat) + 1) :
                 /\ SubSeq(text, i, i + Len(pat) - 1) = pat
                 /\ At(text, i + Len(pat)) \in Digit}
    IN  IF at = {} THEN <<>>
        ELSE LET d == Min(at) + Len(pat)
             IN  SubSeq(text, d, Skip(text, d, Digit) - 1)

-----------------------------------------------------------------------------
\* frame_pattern and re.findall:
\*   #(\d+)\s+(0x[0-9a-fA-F]+)?\s+in\s+([^(]+)(\([^)]*\))?\s+\((?:[^)]*)\)\s+at\s+(.+?):(\d+)
\* matched with the backtracking priorities of the re module: a greedy
\* quantifier tries the longest alternative first, the lazy .+? the shortest,
\* an optional group is tried present before absent.

NoMatch == [ok |-> FALSE, end |-> 0, num |-> <<>>, addr |-> <<>>,
            func |-> <<>>, params |-> <<>>, file |-> <<>>, line |-> <<>>]

\* (.+?):(\d+) with the file starting at f: the first j > f with text[j] = ":"
\* followed by a digit, no newline in text[f..j-1]; 0 if there is none
RECURSIVE LazyColon(_, _, _)
LazyColon(s, f, j) ==
    IF j > Len(s) \/ s[j - 1] = "\n" THEN 0
    ELSE IF s[j] = ":" /\ At(s, j + 1) \in Digit THEN j
    ELSE LazyColon(s, f, j + 1)

\* \s+at\s+(.+?):(\d+) from position r
MatchTail(s, r) ==
    LET w5 == Skip(s, r, Space)
    IN  IF w5 = r \/ At(s, w5) # "a" \/ At(s, w5 + 1) # "t" THEN NoMatch
        ELSE LET t == w5 + 2
                 w6 == Skip(s, t, Space)
                 cands == {f \in (t + 1)..w6 : LazyColon(s, f, f + 1) # 0}
             IN  IF cands = {} THEN NoMatch
                 ELSE LET f == Max(cands)
                          j == LazyColon(s, f, f + 1)
                          e == Skip(s, j + 1, Digit)
                      IN  [NoMatch EXCEPT !.ok = TRUE, !.end = e,
                                          !.file = SubSeq(s, f, j - 1),
                                          !.line = SubSeq(s, j + 1, e - 1)]

\* the captures of ([^(]+)(\([^)]*\))? once the rest of the pattern is known to
\* match: w3 ends the spaces after "in", p is the first "(", c1 the first ")"
\* after it; tailP is the match of the rest with the parameter list present,
\* tailN with it absent
FuncCaptures(s, q, w3, p, c1, tailP, tailN, cands) ==
    IF w3 = q \/ p > Len(s) \/ cands = {} THEN NoMatch
    ELSE IF p > Max(cands) /\ tailP.ok
    THEN [tailP EXCEPT !.func = SubSeq(s, Max(cands), p - 1),
                       !.params = SubSeq(s, p, c1)]
    ELSE [tailN EXCEPT !.func = SubSeq(s, Max(cands), p - 2)]

\* the starts of func that lead to a match, among the spaces after "in"
FuncStarts(q, w3, p, okP, okN) ==
    {fs \in (q + 1)..w3 : (p > fs /\ okP) \/ (p - 1 > fs /\ okN)}

\* the rest of the pattern after func
FuncTails(s, q, w3, p, c1, tailP, tailN) ==
    FuncCaptures(s, q, w3, p, c1, tailP, tailN,
                 FuncStarts(q, w3, p, tailP.ok, tailN.ok))

\* \s+([^(]+)(\([^)]*\))?\s+\((?:[^)]*)\) and the tail, from position q
MatchFunc(s, q) ==
    LET w3 == Skip(s, q, Space)
        p  == SkipUntil(s, w3, {"("})
        c1 == SkipUntil(s, p + 1, {")"})
        w4 == Skip(s, c1 + 1, Space)
        c2 == SkipUntil(s, w4 + 1, {")"})
    IN  FuncTails(s, q, w3, p, c1,
            \* parameter list present: func runs to the first "(", then
            \* (params), \s+, (args)
            IF c1 <= Len(s) /\ w4 > c1 + 1 /\ At(s, w4) = "(" /\ c2 <= Len(s)
            THEN MatchTail(s, c2 + 1) ELSE NoMatch,
            \* parameter list absent: func gives back one space before the
            \* first "(", then (args)
            IF p > 1 /\ At(s, p - 1) \in Space /\ c1 <= Len(s)
            THEN MatchTail(s, c1 + 1) ELSE NoMatch)

\* the captures #(\d+) and (0x[0-9a-fA-F]+)? added to a match of the rest
WithHead(m, num, addr) ==
    IF m.ok THEN [m EXCEPT !.num = num, !.addr = addr] ELSE NoMatch

\* one match of frame_pattern starting at position i
MatchAt(s, i) ==
    LET e1 == Skip(s, i + 1, Digit)
        w1 == Skip(s, e1, Space)
        h  == Skip(s, w1 + 2, Hex)
        w2 == Skip(s, h, Space)
        withAddr == /\ At(s, w1) = "0" /\ At(s, w1 + 1) = "x" /\ h > w1 + 2
                    /\ w2 > h /\ At(s, w2) = "i" /\ At(s, w2 + 1) = "n"
        noAddr == w1 - e1 >= 2 /\ At(s, w1) = "i" /\ At(s, w1 + 1) = "n"
    IN  IF At(s, i) # "#" \/ e1 = i + 1 \/ w1 = e1 THEN NoMatch
        ELSE IF withAddr
        THEN WithHead(MatchFunc(s, w2 + 2), SubSeq(s, i + 1, e1 - 1), SubSeq(s, w1, h - 1))
        ELSE IF noAddr
        THEN WithHead(MatchFunc(s, w1 + 2), SubSeq(s, i + 1, e1 - 1), <<>>)
        ELSE NoMatch

\* re.findall(frame_pattern, output): the non-overlapping matches, left to
\* right; FindAllFrom continues after the attempt m at position i
RECURSIVE FindAll(_, _), FindAllFrom(_, _, _)
FindAll(s, pos) ==
    IF SkipUntil(s, pos, {"#"}) > Len(s) THEN <<>>
    ELSE FindAllFrom(s, SkipUntil(s, pos, {"#"}), MatchAt(s, SkipUntil(s, pos, {"#"})))

FindAllFrom(s, i, m) ==
    IF m.ok THEN <<m>> \o FindAll(s, m.end) ELSE FindAll(s, i + 1)

-----------------------------------------------------------------------------
(* Classification of the frames *)

\* full_func = func.strip() + (params if params else '')
FullFunc(func, params) == Strip(func) \o params

\* is_library without the '.so' in file test
IsLibrary_noso(func, file) ==
    \/ StartsWith(file, <<"/","u","s","r">>)      \/ StartsWith(file, <<"/","l","i","b">>)
    \/ Contains(<<"s","y","s","d","e","p","s">>, file)     \/ Contains(<<"m","a","l","l","o","c">>, file)
    \/ Contains(<<"l","i","b","c">>, file)        \/ Contains(<<"l","i","b","s","t","d","c","+","+">>, file)
    \/ Contains(<<"l","i","b","p","t","h","r","e","a","d">>, file)  \/ Contains(<<"l","d","-","l","i","n","u","x">>, file)
    \/ Contains(<<"c","s","u">>, file)         \/ Contains(<<"v","g","_","p","r","e","l","o","a","d">>, file)
    \/ Contains(<<"l","i","n","u","x","-","g","n","u">>, file)   \/ StartsWith(func, <<"_","_","G","I","_">>)
    \/ StartsWith(func, <<"_","_","l","i","b","c","_">>)   \/ StartsWith(func, <<"s","t","d",":",":">>)
    \/ StartsWith(func, <<"o","p","e","r","a","t","o","r">>)

\* is_library without the file.startswith('/lib') test
IsLibrary_nolib(func, file) ==
    \/ StartsWith(file, <<"/","u","s","r">>)
    \/ Contains(<<"s","y","s","d","e","p","s">>, file)     \/ Contains(<<"m","a","l","l","o","c">>, file)
    \/ Contains(<<".","s","o">>, file)
    \/ Contains(<<"l","i","b","c">>, file)        \/ Contains(<<"l","i","b","s","t","d","c","+","+">>, file)
    \/ Contains(<<"l","i","b","p","t","h","r","e","a","d">>, file)  \/ Contains(<<"l","d","-","l","i","n","u","x">>, file)
    \/ Contains(<<"c","s","u">>, file)         \/ Contains(<<"v","g","_","p","r","e","l","o","a","d">>, file)
    \/ Contains(<<"l","i","n","u","x","-","g","n","u">>, file)   \/ StartsWith(func, <<"_","_","G","I","_">>)
    \/ StartsWith(func, <<"_","_","l","i","b","c","_">>)   \/ StartsWith(func, <<"s","t","d",":",":">>)
    \/ StartsWith(func, <<"o","p","e","r","a","t","o","r">>)

\* is_library = any([...]) on the captured func and file
IsLibrary(func, file) ==
    \/ StartsWith(file, <<"/","u","s","r">>)      \/ StartsWith(file, <<"/","l","i","b">>)
    \/ Contains(<<"s","y","s","d","e","p","s">>, file)     \/ Contains(<<"m","a","l","l","o","c">>, file)
    \/ Contains(<<".","s","o">>, file)
    \/ Contains(<<"l","i","b","c">>, file)        \/ Contains(<<"l","i","b","s","t","d","c","+","+">>, file)
    \/ Contains(<<"l","i","b","p","t","h","r","e","a","d">>, file)  \/ Contains(<<"l","d","-","l","i","n","u","x">>, file)
    \/ Contains(<<"c","s","u">>, file)         \/ Contains(<<"v","g","_","p","r","e","l","o","a","d">>, file)
    \/ Contains(<<"l","i","n","u","x","-","g","n","u">>, file)   \/ StartsWith(func, <<"_","_","G","I","_">>)
    \/ StartsWith(func, <<"_","_","l","i","b","c","_">>)   \/ StartsWith(func, <<"s","t","d",":",":">>)
    \/ StartsWith(func, <<"o","p","e","r","a","t","o","r">>)

\* the tuple appended to a bucket: (frame_num, full_func, file, line)
Entry(m) == <<m.num, FullFunc(m.func, m.params), m.file, m.line>>

\* the for loop over frames, for one bucket (lib = TRUE: library_frames)
RECURSIVE Bucket(_, _)
Bucket(fs, lib) ==
    IF fs = <<>> THEN <<>>
    ELSE (IF IsLibrary(fs[1].func, fs[1].file) = lib THEN <<Entry(fs[1])>> ELSE <<>>)
         \o Bucket(Tail(fs), lib)

-----------------------------------------------------------------------------
(* Rendering of the report *)

Piece(k, v) == [k |-> k, v |-> v]

NoOutputMsg == <<Piece("Hmm, no output to analyze. That's strange!", <<>>)>>
SuccessMsg == <<Piece("Success! Program finished perfectly with code 0!", <<>>)>>
ExitErrorMsg(code) ==
    <<Piece("Program exited with error code {code} (not a crash, but something went wrong)", StrOf(code))>>
NoCrashMsg == <<Piece("No crash detected! Program finished normally.", <<>>)>>

\* the branch taken when no signal was detected
NoSignalReport(text) ==
    IF Contains(ExitMarker, text) /\ ExitCodeSearch(text) # <<>>
    THEN LET code == IntOf(ExitCodeSearch(text))
         IN  IF code = 0 THEN SuccessMsg ELSE ExitErrorMsg(code)
    ELSE NoCrashMsg

\* the frame reported as the problem, taken from the wrong end
ProblemFrame_last(uf) == uf[Len(uf)]

\* frame_num, func, file, line = user_frames[0]
ProblemFrame(uf) == uf[1]

ProblemSection(uf) ==
    LET f == ProblemFrame(uf)
    IN  << Piece("The problem is likely here:", <<>>),
           Piece("File: {file}", f[3]),
           Piece("Line: {line}", f[4]),
           Piece("Function: {func}", f[2]) >>

StepLabel == <<"2. {func}", "3. {func}", "4. {func}">>

Min2(a, b) == IF a < b THEN a ELSE b

\* the chain walking inward for two frames only
ChainSteps_two(uf) ==
    [i \in 1..Min2(2, Len(uf) - 1) |-> Piece(StepLabel[i], uf[Len(uf) - i][2])]

\* for i in range(min(3, len(user_frames)-1)): f"   {i+2}. {user_frames[-(i+2)][1]}"
ChainSteps(uf) ==
    [i \in 1..Min2(3, Len(uf) - 1) |-> Piece(StepLabel[i], uf[Len(uf) - i][2])]

\* "What happened (simplified)" and, if len(user_frames) > 1, the chain
ChainSection(uf) ==
    <<Piece("What happened (simplified):", <<>>)>>
    \o (IF Len(uf) > 1
        THEN <<Piece("1. {func} (started here)", uf[Len(uf)][2])>>
             \o ChainSteps(uf)
             \o <<Piece("-> {func} (crashed here)", uf[1][2])>>
        ELSE <<>>)

\* the hint appended when user frames and library frames both exist
HintSection(lf) ==
    IF lf # <<>>
    THEN << Piece("Hint: Your code called a system function that caused the crash.", <<>>),
            Piece("The system was trying to: {func}", lf[1][2]) >>
    ELSE <<>>

LibTerms == {<<"s","t","d",":",":">>, <<"_","_","G","I","_">>, <<"_","_","l","i","b","c","_">>}

\* the loop without its filter: the first library frame is named
LookAt_nofilter(lf) ==
    IF lf = <<>> THEN <<>>
    ELSE <<Piece("Look at this code: {func} at {file}:{line}",
                 lf[1][2] \o <<" ","a","t"," ">> \o lf[1][3] \o <<":">> \o lf[1][4])>>

\* for ... in library_frames: if not any(lib_term in func ...): result += ...; break
LookAt(lf) ==
    LET ok == {i \in 1..Len(lf) : \A t \in LibTerms : ~Contains(t, lf[i][2])}
    IN  IF ok = {} THEN <<>>
        ELSE LET e == lf[Min(ok)]
             IN  <<Piece("Look at this code: {func} at {file}:{line}",
                         e[2] \o <<" ","a","t"," ">> \o e[3] \o <<":">> \o e[4])>>

SystemLibrarySection(lf) ==
    << Piece("The crash happened in a system library", <<>>),
       Piece("This usually means:", <<>>),
       Piece("You passed invalid data to a system function", <<>>),
       Piece("Memory was corrupted before the system call", <<>>),
       Piece("You're using a library function incorrectly", <<>>) >>
    \o LookAt(lf)

NoDetailSection ==
    << Piece("Couldn't find detailed crash information", <<>>),
       Piece("Try this: Compile with -g flag: g++ -g your_code.cpp", <<>>) >>

QuickTips ==
    << Piece("Quick tips:", <<>>),
       Piece("Check for null pointers", <<>>),
       Piece("Verify array bounds", <<>>),
       Piece("Ensure memory is properly allocated", <<>>),
       Piece("Validate function inputs", <<>>),
       Piece("Avoid double frees or invalid frees", <<>>),
       Piece("Use tools like Valgrind for memory issues", <<>>),
       Piece("Don't hesitate to ask for help!", <<>>) >>

Header(sig) == <<Piece("header", <<FriendlyGet(sig)>>)>>

\* the report of the branch taken when a signal was detected
CrashReport(sig, uf, lf) ==
    Header(sig)
    \o (IF uf # <<>> THEN ProblemSection(uf) \o ChainSection(uf) \o HintSection(lf)
        ELSE IF lf # <<>> THEN SystemLibrarySection(lf)
        ELSE NoDetailSection)
    \o QuickTips

\* the locals and the result of a call that returned early
EarlyReturn(result) ==
    [sig |-> <<>>, frames |-> <<>>, user |-> <<>>, library |-> <<>>, result |-> result]

\* the locals and the result once the frames are in their buckets
Rendered(sig, fr, uf, lf) ==
    [sig |-> sig, frames |-> fr, user |-> uf, library |-> lf,
     result |-> CrashReport(sig, uf, lf)]

\* the for loop over frames
Classified(sig, fr) == Rendered(sig, fr, Bucket(fr, FALSE), Bucket(fr, TRUE))

\* the function after the empty-text test
Detected(text, sig) ==
    IF sig = <<>> THEN EarlyReturn(NoSignalReport(text))
    ELSE Classified(sig, FindAll(text, 1))

\* parse_gdb_output(output): the locals it leaves and the text it returns
parse_gdb_output(text) ==
    IF text = <<>> THEN EarlyReturn(NoOutputMsg)
    ELSE Detected(text, DetectSignal(text))

-----------------------------------------------------------------------------
(* The texts the summarizer is applied to.  A text is assembled from marker *)
(* chunks followed by backtrace lines; `input` keeps the parts.             *)

Ln(shape, name, params, args, file, line) ==
    [shape |-> shape, addr |-> <<"0","x","4","0","1","1","4","6">>, name |-> name, params |-> params,
     args |-> args, file |-> file, line |-> line]

\* the text of backtrace line number n (0 = innermost)
LineText(l, n) ==
    IF l.shape = "raw" THEN l.name
    ELSE <<"#">> \o StrOf(n) \o <<" "," ">> \o l.addr \o <<" ","i","n"," ">> \o l.name \o l.params
         \o <<" ","(">> \o l.args \o <<")">>
         \o (IF l.shape = "full" THEN <<" ","a","t"," ">> \o l.file \o <<":">> \o l.line
             ELSE <<" ","f","r","o","m"," ">> \o l.file)
         \o <<"\n">>

RECURSIVE Join(_)
Join(ts) == IF ts = <<>> THEN <<>> ELSE ts[1] \o Join(Tail(ts))

Text(inp) ==
    Join(inp.chunks) \o Join([i \in 1..Len(inp.lines) |-> LineText(inp.lines[i], i - 1)])

UserFile == <<"/","h","o","m","e","/","u","s","e","r","/","a","p","p",".","c">>
LibFile == <<"/","u","s","r","/","i","n","c","l","u","d","e","/","s","t","d","l","i","b",".","h">>

\* lines that differ in the function text, in a user file
NameLines ==
    { Ln("full", n, <<>>, <<>>, UserFile, <<"1","0">>) :
        n \in { <<"c","r","a","s","h","_","f","u","n","c">>, <<"m","a","i","n">>, <<"_","_","G","I","_","r","a","i","s","e">>, <<"_","_","l","i","b","c","_","s","t","a","r","t","_","m","a","i","n">>,
                <<"s","t","d",":",":","s","o","r","t","<","i","n","t",">">>, <<"o","p","e","r","a","t","o","r"," ","n","e","w">>, <<"w","r","a","p","_","_","G","I","_","x">>, <<"m","y","_","o","p","e","r","a","t","o","r">> } }
    \cup { Ln("full", <<"p","r","o","c","e","s","s">>, <<"(","i","n","t",")">>, <<"x","=","1">>, UserFile, <<"2","2">>),
           Ln("full", <<"p","r","i","n","t">>, <<"(","s","t","d",":",":","s","t","r","i","n","g",")">>, <<"s","=",".",".",".">>, UserFile, <<"2","3">>),
           Ln("full", <<"l","o","o","k","u","p">>, <<" ","(","i","n","t",")">>, <<"k","=","7">>, UserFile, <<"2","4">>) }

\* lines that differ in the file path, with a plain function name
FileLines ==
    { Ln("full", <<"h","e","l","p","e","r">>, <<>>, <<>>, f, <<"7">>) :
        f \in { <<"/","u","s","r","/","i","n","c","l","u","d","e","/","c","+","+","/","b","i","t","s","/","s","t","l","_","a","l","g","o",".","h">>, <<"/","l","i","b","/","x",".","c">>,
                <<".",".","/","s","y","s","d","e","p","s","/","u","n","i","x","/","r","a","i","s","e",".","c">>, <<"m","a","l","l","o","c",".","c">>, <<"b","u","i","l","d","/","l","i","b","f","o","o",".","s","o">>,
                <<"/","h","o","m","e","/","u","/","m","y",".","s","o","l","v","e","r","/","a",".","c">>, <<"g","l","i","b","c","/","a","b","o","r","t",".","c">>, <<"l","i","b","s","t","d","c","+","+","/","x",".","c","c">>,
                <<"l","i","b","p","t","h","r","e","a","d",".","c">>, <<"l","d","-","l","i","n","u","x",".","c">>, <<"c","s","u","/","i","n","i","t",".","c">>, <<"v","g","_","p","r","e","l","o","a","d",".","c">>,
                <<"x","8","6","_","6","4","-","l","i","n","u","x","-","g","n","u","/","a",".","h">>, <<"a","p","p","/","u","s","r","/","x",".","c">>, <<"s","r","c","/","m","a","i","n",".","c","p","p">> } }

\* lines in a library file that differ in the function text
LibNameLines ==
    { Ln("full", n, <<>>, <<>>, LibFile, <<"9","9">>) :
        n \in { <<"w","r","a","p","_","_","G","I","_","x">>, <<"_","_","G","I","_","r","a","i","s","e">>, <<"s","t","d",":",":","s","o","r","t","<","i","n","t",">">>, <<"a","b","o","r","t">> } }
    \cup { Ln("full", <<"p","r","i","n","t">>, <<"(","s","t","d",":",":","s","t","r","i","n","g",")">>, <<"s","=",".",".",".">>, LibFile, <<"9","8">>) }

\* lines the frame pattern matches in an unusual way, or not at all
RawLines ==
    { Ln("raw", t, <<>>, <<>>, <<>>, <<>>) :
        t \in { <<"#","1"," "," ","i","n"," "," "," ","(",")"," ","a","t"," "," ",":","5","\n">>, <<"#","2"," ","0","x","2"," ","i","n"," ","b","a","r"," ","(",")"," ","a","t","\n"," ","x",".","c",":","7","\n">>,
                <<"#","3"," "," ","i","n"," ","r","u","n","(","i","n","t",")"," ","(","a","=","1",")"," ","a","t"," ","y",".","c",":","9","\n">>, <<"#","4"," ","i","n"," ","f"," ","(",")"," ","a","t"," ","z",".","c",":","1","\n">>,
                <<"#","5"," "," ","0","x","1"," ","i","n"," ","g"," "," ","(",")"," ","a","t"," ","/","u","s","r","/","w",".","c",":","3"," ","#","6"," "," ","0","x","2"," ","i","n"," ","h"," ","(",")"," ","a","t"," ","v",".","c",":","4","\n">>,
                <<"#","7"," "," ","0","x","Z","Z"," ","i","n"," ","k"," ","(",")"," ","a","t"," ","u",".","c",":","2","\n">> } }

SegvChunk == <<"P","r","o","g","r","a","m"," ","r","e","c","e","i","v","e","d"," ","s","i","g","n","a","l"," ","S","I","G","S","E","G","V",","," ","S","e","g","m","e","n","t","a","t","i","o","n"," ","f","a","u","l","t",".","\n">>

\* one or two lines of the vocabularies, after a SIGSEGV marker
ClassifyInputs ==
    LET V == NameLines \cup FileLines \cup LibNameLines \cup RawLines
    IN  { [chunks |-> <<SegvChunk>>, lines |-> <<a>>] : a \in V }
        \cup { [chunks |-> <<SegvChunk>>, lines |-> <<a, b>>] :
                 a \in NameLines \cup LibNameLines \cup RawLines,
                 b \in FileLines \cup LibNameLines \cup NameLines }

\* backtraces of up to MaxFrames lines; line n is function f<n>, in a user
\* file ("u"), in a library file ("l") or without file information ("n")
ChainLine(kind, n) ==
    IF kind = "u" THEN Ln("full", <<"f">> \o StrOf(n), <<>>, <<>>, <<"s","r","c","/","a",".","c">>, StrOf(n + 1))
    ELSE IF kind = "l" THEN Ln("full", <<"f">> \o StrOf(n), <<>>, <<>>, <<"/","u","s","r","/","b",".","c">>, StrOf(n + 1))
    ELSE Ln("nofile", <<"f">> \o StrOf(n), <<>>, <<>>, <<"/","l","i","b","/","l","i","b","c",".","s","o",".","6">>, <<>>)

ChainInputs ==
    { [chunks |-> h, lines |-> [i \in DOMAIN ks |-> ChainLine(ks[i], i - 1)]] :
        h \in { <<SegvChunk>>, <<>> },
        ks \in UNION { [1..k -> {"u", "l", "n"}] : k \in 0..MaxFrames } }

\* marker chunks of texts without frames
MarkerChunks ==
    { <<"s","i","g","n","a","l"," ">> \o FRIENDLY_SIGNALS[i].sig \o <<"\n">> : i \in 1..Len(FRIENDLY_SIGNALS) }
    \cup { <<"e","x","i","t","e","d"," ","w","i","t","h"," ","c","o","d","e"," ","0","\n">>, <<"e","x","i","t","e","d"," ","w","i","t","h"," ","c","o","d","e"," ","0","5","]","\n">>, <<"e","x","i","t","e","d"," ","w","i","t","h"," ","c","o","d","e"," ","1","\n">>,
           <<"e","x","i","t","e","d"," ","w","i","t","h"," ","c","o","d","e"," ","0","0","]","\n">>, <<"e","x","i","t","e","d"," ","w","i","t","h"," ","c","o","d","e"," ","x","\n">>, <<"e","x","i","t","e","d"," ","w","i","t","h"," ","c","o","d","e","\n">>,
           <<"e","x","i","t","e","d"," ","n","o","r","m","a","l","l","y","]","\n">>, <<"a","t"," ","M","Y","S","I","G","F","P","E","X",".","c","\n">> }

MarkerInputs ==
    { [chunks |-> cs, lines |-> <<>>] :
        cs \in UNION { [1..k -> MarkerChunks] : k \in 0..MaxChunks } }

\* the end-to-end example
EndToEndInput ==
    [chunks |-> <<<<"P","r","o","g","r","a","m"," ","r","e","c","e","i","v","e","d"," ","s","i","g","n","a","l"," ","S","I","G","S","E","G","V",".",".",".","\n">>>>,
     lines |-> << [Ln("full", <<"c","r","a","s","h","_","f","u","n","c">>, <<>>, <<>>, UserFile, <<"1","0">>)
                      EXCEPT !.addr = <<"0","x","0","0","0","0","0","0","0","0","0","0","4","0","1","1","4","6">>],
                  [Ln("full", <<"m","a","i","n">>, <<>>, <<>>, UserFile, <<"1","5">>)
                      EXCEPT !.addr = <<"0","x","0","0","0","0","0","0","0","0","0","0","4","0","1","1","6","0">>] >>]

Inputs == ClassifyInputs \cup ChainInputs \cup MarkerInputs \cup {EndToEndInput}

NoInput == [chunks |-> <<>>, lines |-> <<>>]

-----------------------------------------------------------------------------
(* The summarizer applied to a text *)

Init ==
    /\ input \in Inputs
    /\ output = Text(input)
    /\ pc = "call"
    /\ signal_detected = <<>> /\ frames = <<>> /\ user_frames = <<>>
    /\ library_frames = <<>> /\ report = <<>>
    /\ argv = <<>> /\ cmd = <<>> /\ spawn_calls = 0 /\ proc = "none"
    /\ elapsed = 0 /\ raised = "none" /\ stdout = <<>> /\ stderr = <<>>
    /\ printed = <<>> /\ uncaught = "none" /\ exit_status = -1

\* the locals and the result of a call of parse_gdb_output
SetLocals(r) ==
    /\ signal_detected' = r.sig
    /\ frames' = r.frames
    /\ user_frames' = r.user
    /\ library_frames' = r.library
    /\ report' = r.result

Summarize == SetLocals(parse_gdb_output(output))

ParseGdbOutput ==
    /\ pc = "call"
    /\ Summarize
    /\ pc' = "return"
    /\ UNCHANGED <<input, output>>
    /\ UNCHANGED main_vars

Next == ParseGdbOutput

Spec == Init /\ [][Next]_vars

-----------------------------------------------------------------------------
(* The command line: main, run_gdb and the top-level interrupt handler *)

\* timeout = 30
Timeout == 30

\* the texts of the except clauses, without their leading emoji
TimedOutText == <<"T","i","m","e","'","s"," ","u","p","!"," ","P","r","o","g","r","a","m"," ","t","o","o","k"," ","t","o","o"," ","l","o","n","g"," ","a","n","d"," ","w","a","s"," ","s","t","o","p","p","e","d",".">>
NotInstalledText == <<"O","o","p","s","!"," ","G","D","B"," ","i","s"," ","n","o","t"," ","i","n","s","t","a","l","l","e","d","."," ","P","l","e","a","s","e"," ","i","n","s","t","a","l","l"," ","i","t"," ","w","i","t","h",":"," ","s","u","d","o"," ","a","p","t"," ","i","n","s","t","a","l","l"," ","g","d","b">>
FailedPrefix == <<"W","h","o","o","p","s","!"," ","F","a","i","l","e","d"," ","t","o"," ","r","u","n"," ","G","D","B",":"," ">>

\* str(e) of the exceptions other than TimeoutExpired and FileNotFoundError
ExcText(exc) ==
    IF exc = "PermissionError" THEN <<"[","E","r","r","n","o"," ","1","3","]"," ","P","e","r","m","i","s","s","i","o","n"," ","d","e","n","i","e","d",":"," ","'","g","d","b","'">>
    ELSE <<"'","u","t","f","-","8","'"," ","c","o","d","e","c"," ","c","a","n","'","t"," ","d","e","c","o","d","e"," ","b","y","t","e"," ","0","x","f","f">>

\* the handlers in the wrong order: except Exception first
RunGdbReturn_generic(exc, out, err) ==
    IF exc = "none" THEN out \o err ELSE FailedPrefix \o ExcText(exc)

\* the value run_gdb returns: the try body, or the except clause that matches
RunGdbReturn(exc, out, err) ==
    IF exc = "none" THEN out \o err
    ELSE IF exc = "TimeoutExpired" THEN TimedOutText
    ELSE IF exc = "FileNotFoundError" THEN NotInstalledText
    ELSE FailedPrefix \o ExcText(exc)

\* str.isdigit()
IsDigitStr(a) == a # <<>> /\ \A i \in 1..Len(a) : a[i] \in Digit

LongFlag == <<"-","-","l","o","n","g">>

\* list.remove(x): the list without the first occurrence of x
ListRemove(l, x) ==
    LET i == Min({j \in 1..Len(l) : l[j] = x})
    IN  SubSeq(l, 1, i - 1) \o SubSeq(l, i + 1, Len(l))

Banner == <<Piece("Starting Happy Crash Detective!", <<>>)>>
RejectionMsg ==
    <<Piece("First argument should be a binary or PID, not a number. [The PID feature will be added soon!]", <<>>)>>
NoBinaryMsg == <<Piece("Please provide a binary to debug.", <<>>)>>
FarewellMsg == <<Piece("interrupted. Goodbye!", <<>>)>>

\* the methods class HappyCrashDetective defines
Methods == {"__init__", "run_gdb", "attach_gdb", "parse_gdb_output",
            "interactive_debug", "debug_binary", "attach_process"}

Args == {<<".","/","a","p","p">>, <<"4","2">>, LongFlag, <<"i","n",".","t","x","t">>}
ArgLists == UNION { [1..k -> Args] : k \in 0..MaxArgs }

\* what the debugger may have written when it ends
StdoutTexts == { <<>>, Text(EndToEndInput), <<"[","I","n","f","e","r","i","o","r"," ","1"," ","(","p","r","o","c","e","s","s"," ","7",")"," ","e","x","i","t","e","d"," ","w","i","t","h"," ","c","o","d","e"," ","0","1","]","\n">> }
StderrTexts == { <<>>, <<"w","a","r","n","i","n","g",":"," ","E","r","r","o","r"," ","d","i","s","a","b","l","i","n","g"," ","a","d","d","r","e","s","s"," ","s","p","a","c","e"," ","r","a","n","d","o","m","i","z","a","t","i","o","n","\n">> }

InitMain ==
    /\ argv \in ArgLists
    /\ pc = "main"
    /\ input = NoInput /\ output = <<>>
    /\ signal_detected = <<>> /\ frames = <<>> /\ user_frames = <<>>
    /\ library_frames = <<>> /\ report = <<>>
    /\ cmd = <<>> /\ spawn_calls = 0 /\ proc = "none"
    /\ elapsed = 0 /\ raised = "none" /\ stdout = <<>> /\ stderr = <<>>
    /\ printed = <<>> /\ uncaught = "none" /\ exit_status = -1

\* main(), up to the call of run_gdb or to its return
Main ==
    /\ pc = "main"
    /\ IF Len(argv) > 0
       THEN IF IsDigitStr(argv[1])
            THEN /\ printed' = <<Banner, RejectionMsg>>
                 /\ cmd' = argv
                 /\ pc' = "exit" /\ exit_status' = 0
                 /\ UNCHANGED uncaught
            ELSE IF \E i \in 1..Len(argv) : argv[i] = LongFlag
            THEN \* debugger.monitor_long_running_process(cmd)
                 /\ printed' = <<Banner>>
                 /\ cmd' = ListRemove(argv, LongFlag)
                 /\ IF "monitor_long_running_process" \in Methods
                    THEN pc' = "monitor" /\ UNCHANGED <<uncaught, exit_status>>
                    ELSE pc' = "exit" /\ uncaught' = "AttributeError" /\ exit_status' = 1
            ELSE /\ printed' = <<Banner>>
                 /\ cmd' = argv
                 /\ pc' = "run_gdb"
                 /\ UNCHANGED <<uncaught, exit_status>>
       ELSE /\ printed' = <<Banner, NoBinaryMsg>>
            /\ pc' = "exit" /\ exit_status' = 0
            /\ UNCHANGED <<cmd, uncaught>>
    /\ UNCHANGED <<input, output, argv, spawn_calls, proc, elapsed, raised, stdout, stderr>>
    /\ UNCHANGED parse_vars

\* run_gdb: subprocess.run is called; the debugger starts, or the launch fails
\* and the matching except clause returns
RunGdbLaunch ==
    /\ pc = "run_gdb"
    /\ spawn_calls' = spawn_calls + 1
    /\ \/ /\ proc' = "running" /\ elapsed' = 0 /\ pc' = "wait"
          /\ UNCHANGED <<raised, output>>
       \/ \E exc \in {"FileNotFoundError", "PermissionError"} :
            /\ raised' = exc
            /\ output' = RunGdbReturn(exc, <<>>, <<>>)
            /\ pc' = "returned"
            /\ UNCHANGED <<proc, elapsed>>
    /\ UNCHANGED <<input, argv, cmd, stdout, stderr, printed, uncaught, exit_status>>
    /\ UNCHANGED parse_vars

\* a second passes while subprocess.run waits for the debugger
Tick ==
    /\ pc = "wait" /\ elapsed < Timeout
    /\ elapsed' = elapsed + 1
    /\ UNCHANGED <<pc, input, output, argv, cmd, spawn_calls, proc, raised, stdout,
                   stderr, printed, uncaught, exit_status>>
    /\ UNCHANGED parse_vars

\* the debugger ends within the timeout: return result.stdout + result.stderr
GdbExits ==
    /\ pc = "wait"
    /\ \E out \in StdoutTexts, err \in StderrTexts :
         /\ stdout' = out /\ stderr' = err
         /\ output' = RunGdbReturn("none", out, err)
    /\ proc' = "exited" /\ raised' = "none"
    /\ pc' = "returned"
    /\ UNCHANGED <<input, argv, cmd, spawn_calls, elapsed, printed, uncaught, exit_status>>
    /\ UNCHANGED parse_vars

\* the timeout expires: subprocess.run kills the debugger, waits for it and
\* raises TimeoutExpired
GdbTimesOut ==
    /\ pc = "wait" /\ elapsed = Timeout
    /\ proc' = "killed" /\ raised' = "TimeoutExpired"
    /\ output' = RunGdbReturn("TimeoutExpired", <<>>, <<>>)
    /\ pc' = "returned"
    /\ UNCHANGED <<input, argv, cmd, spawn_calls, elapsed, stdout, stderr, printed,
                   uncaught, exit_status>>
    /\ UNCHANGED parse_vars

\* the captured output cannot be decoded: subprocess.run kills the debugger
\* and the error reaches except Exception
GdbOutputUndecodable ==
    /\ pc = "wait"
    /\ proc' = "killed" /\ raised' = "UnicodeDecodeError"
    /\ output' = RunGdbReturn("UnicodeDecodeError", <<>>, <<>>)
    /\ pc' = "returned"
    /\ UNCHANGED <<input, argv, cmd, spawn_calls, elapsed, stdout, stderr, printed,
                   uncaught, exit_status>>
    /\ UNCHANGED parse_vars

\* print(debugger.parse_gdb_output(output)); main returns
PrintReport ==
    /\ pc = "returned"
    /\ Summarize
    /\ printed' = Append(printed, report')
    /\ pc' = "exit" /\ exit_status' = 0
    /\ UNCHANGED <<input, output, argv, cmd, spawn_calls, proc, elapsed, raised,
                   stdout, stderr, uncaught>>

\* KeyboardInterrupt while main runs: no except clause of run_gdb matches it
\* (subprocess.run kills a running debugger), the handler at top level prints
\* the farewell and calls sys.exit(0)
Interrupt ==
    /\ pc \in {"main", "run_gdb", "wait", "returned"}
    /\ proc' = IF proc = "running" THEN "killed" ELSE proc
    /\ printed' = Append(printed, FarewellMsg)
    /\ pc' = "exit" /\ exit_status' = 0
    /\ UNCHANGED <<input, output, argv, cmd, spawn_calls, elapsed, raised, stdout,
                   stderr, uncaught>>
    /\ UNCHANGED parse_vars

NextMain ==
    \/ Main
    \/ RunGdbLaunch
    \/ Tick
    \/ GdbExits
    \/ GdbTimesOut
    \/ GdbOutputUndecodable
    \/ PrintReport
    \/ Interrupt

SpecMain == InitMain /\ [][NextMain]_vars

-----------------------------------------------------------------------------
(* Properties *)

\* the positions of the pieces of the report with fixed text k
Pieces(k) == {n \in 1..Len(report) : report[n].k = k}

\* the names of FRIENDLY_SIGNALS that occur in the text
NamesIn(text) == {i \in 1..Len(FRIENDLY_SIGNALS) : Contains(FRIENDLY_SIGNALS[i].sig, text)}

\* the text has "exited with code " followed by a digit at position i
ExitCodeAt(text, i) ==
    /\ i + 17 <= Len(text)
    /\ SubSeq(text, i, i + 16) = <<"e","x","i","t","e","d"," ","w","i","t","h"," ","c","o","d","e"," ">>
    /\ text[i + 17] \in Digit

\* the digits of the leftmost exit-code marker are all "0"
FirstExitCodeIsZero(text) ==
    \E i \in 1..Len(text) :
        /\ ExitCodeAt(text, i)
        /\ \A j \in 1..(i - 1) : ~ExitCodeAt(text, j)
        /\ \A n \in (i + 17)..Len(text) :
             (\A m \in (i + 17)..n : text[m] \in Digit) => text[n] = "0"

(* C1, as claimed: every text that contains "exited with code 0" is reported
   as a success, whatever else it contains. *)
C1_SuccessRegardless ==
    (pc = "return" /\ Contains(<<"e","x","i","t","e","d"," ","w","i","t","h"," ","c","o","d","e"," ","0">>, output)) => report = SuccessMsg

(* C1, amended: a text that contains none of the seven signal names and whose
   first "exited with code <digits>" marker has the value 0 is reported as a
   success. *)
C1_SuccessWhenFirstCodeZero ==
    (pc = "return" /\ NamesIn(output) = {} /\ FirstExitCodeIsZero(output))
        => report = SuccessMsg

C1_Witness ==
    /\ pc = "return"
    /\ input.chunks = <<<<"e","x","i","t","e","d"," ","w","i","t","h"," ","c","o","d","e"," ","0","0","]","\n">>, <<"e","x","i","t","e","d"," ","w","i","t","h"," ","c","o","d","e"," ","1","\n">>>>
    /\ report = SuccessMsg

(* C2: when at least one signal name occurs in a non-empty text, the detected
   signal is the earliest name of the enumeration order that occurs, wherever
   the names stand in the text; the report starts with that signal's
   explanation and holds no other signal's explanation. *)
C2_FirstMatchInEnumerationOrder ==
    (pc = "return" /\ output # <<>>) =>
        \A i \in NamesIn(output) :
            (\A j \in NamesIn(output) : i <= j) =>
                /\ signal_detected = FRIENDLY_SIGNALS[i].sig
                /\ report[1] = Piece("header", <<FRIENDLY_SIGNALS[i].desc>>)
                /\ \A n \in 2..Len(report), j \in 1..Len(FRIENDLY_SIGNALS) :
                     report[n].k # "header" /\ report[n].v # <<FRIENDLY_SIGNALS[j].desc>>

C2_Witness ==
    /\ pc = "return"
    /\ input.chunks = <<<<"s","i","g","n","a","l"," ","S","I","G","T","R","A","P","\n">>, <<"s","i","g","n","a","l"," ","S","I","G","A","B","R","T","\n">>>>
    /\ signal_detected = <<"S","I","G","A","B","R","T">>
    /\ report[1].v = <<"Abort signal (program decided to quit unexpectedly)">>

\* fs is an interleaving of the buckets u and l that keeps the order of each:
\* compared on frame number, file and line
RECURSIVE Interleaved(_, _, _)
Interleaved(fs, u, l) ==
    IF fs = <<>> THEN u = <<>> /\ l = <<>>
    ELSE \/ /\ u # <<>>
            /\ <<u[1][1], u[1][3], u[1][4]>> = <<fs[1].num, fs[1].file, fs[1].line>>
            /\ Interleaved(Tail(fs), Tail(u), l)
         \/ /\ l # <<>>
            /\ <<l[1][1], l[1][3], l[1][4]>> = <<fs[1].num, fs[1].file, fs[1].line>>
            /\ Interleaved(Tail(fs), u, Tail(l))

(* C3: when a signal is detected, every extracted frame is in exactly one of
   the two buckets and each bucket keeps the extraction order; a frame whose
   path starts with /usr or /lib is in the library bucket; when there is a user
   frame, the problem section gives the file, line and function of the first
   user frame. *)
C3_BucketsPartitionFrames ==
    (pc = "return" /\ signal_detected # <<>>) =>
        /\ Interleaved(frames, user_frames, library_frames)
        /\ \A n \in 1..Len(user_frames) :
             /\ ~StartsWith(user_frames[n][3], <<"/","u","s","r">>)
             /\ ~StartsWith(user_frames[n][3], <<"/","l","i","b">>)
        /\ user_frames # <<>> =>
             /\ report[3] = Piece("File: {file}", user_frames[1][3])
             /\ report[4] = Piece("Line: {line}", user_frames[1][4])
             /\ report[5] = Piece("Function: {func}", user_frames[1][2])

C3_Witness ==
    /\ pc = "return" /\ signal_detected # <<>>
    /\ Len(user_frames) = 2 /\ Len(library_frames) = 2
    /\ library_frames[1][1] = <<"0">>
    /\ StartsWith(library_frames[1][3], <<"/","u","s","r">>)
    /\ user_frames[1][1] = <<"1">>
    /\ report[4].v = <<"2">>

\* every backtrace line has the shape "in NAME () at FILE:LINE"
PlainLines(inp) ==
    /\ inp.lines # <<>>
    /\ \A i \in 1..Len(inp.lines) :
         /\ inp.lines[i].shape = "full"
         /\ inp.lines[i].params = <<>>
         /\ inp.lines[i].args = <<>>

\* the end-to-end example reports the segmentation fault, the file and line 10
EndToEndHeader ==
    /\ report[1] = Piece("header", <<"Segmentation fault (tried to access memory that doesn't belong to you)">>)
    /\ report[3] = Piece("File: {file}", <<"/","h","o","m","e","/","u","s","e","r","/","a","p","p",".","c">>)
    /\ report[4] = Piece("Line: {line}", <<"1","0">>)

(* C4, as claimed: for the end-to-end example the problem section names the
   function "crash_func ()". *)
C4_FunctionWithParentheses ==
    (pc = "return" /\ input = EndToEndInput) =>
        /\ EndToEndHeader
        /\ report[5] = Piece("Function: {func}", <<"c","r","a","s","h","_","f","u","n","c"," ","(",")">>)

(* C4, amended: for the end-to-end example the header identifies the
   segmentation fault and the problem section names file /home/user/app.c,
   line 10 and function "crash_func"; for frame lines of the shape
   "in NAME () at FILE:LINE" the function text of every frame is NAME, without
   the parenthesized part. *)
C4_FunctionNameOnly ==
    /\ (pc = "return" /\ input = EndToEndInput) =>
          /\ EndToEndHeader
          /\ report[5] = Piece("Function: {func}", <<"c","r","a","s","h","_","f","u","n","c">>)
    /\ (pc = "return" /\ signal_detected # <<>> /\ PlainLines(input)) =>
          /\ Len(user_frames) + Len(library_frames) = Len(input.lines)
          /\ \A b \in {user_frames, library_frames} : \A n \in 1..Len(b) :
               \E i \in 1..Len(input.lines) :
                   b[n][1] = StrOf(i - 1) /\ b[n][2] = input.lines[i].name
          /\ user_frames # <<>> =>
               \E i \in 1..Len(input.lines) :
                   report[5] = Piece("Function: {func}", input.lines[i].name)

C4_Witness ==
    /\ pc = "return" /\ input = EndToEndInput
    /\ report[5].v = <<"c","r","a","s","h","_","f","u","n","c">>
    /\ Len(user_frames) = 2

\* the positions of the lines of the simplified call chain
ChainPieces ==
    Pieces("1. {func} (started here)") \cup Pieces("2. {func}") \cup Pieces("3. {func}")
    \cup Pieces("4. {func}") \cup Pieces("-> {func} (crashed here)")

(* C7, as claimed: for every count k >= 1 of user frames the call chain has
   the outermost user frame labelled as the start and a line labelling the
   innermost user frame as "crashed here". *)
C7_ChainForEveryCount ==
    (pc = "return" /\ signal_detected # <<>> /\ Len(user_frames) >= 1) =>
        /\ \E n \in Pieces("1. {func} (started here)") :
             report[n].v = user_frames[Len(user_frames)][2]
        /\ \E n \in Pieces("-> {func} (crashed here)") :
             report[n].v = user_frames[1][2]

(* C7, amended: for every count k >= 2 of user frames the call chain is the
   outermost user frame labelled as the start, then the next min(3, k-1) user
   frames walking inward, numbered from 2, then the innermost user frame
   labelled "crashed here"; for k = 1 only the heading of the chain is
   rendered. *)
C7_ChainForTwoOrMore ==
    (pc = "return" /\ signal_detected # <<>> /\ user_frames # <<>>) =>
        /\ report[6] = Piece("What happened (simplified):", <<>>)
        /\ Len(user_frames) = 1 => ChainPieces = {}
        /\ Len(user_frames) >= 2 =>
             /\ report[7] = Piece("1. {func} (started here)", user_frames[Len(user_frames)][2])
             /\ \A i \in 1..3 :
                  IF i <= Len(user_frames) - 1
                  THEN report[7 + i] = Piece(StepLabel[i], user_frames[Len(user_frames) - i][2])
                  ELSE Pieces(StepLabel[i]) = {}
             /\ report[8 + Min2(3, Len(user_frames) - 1)]
                  = Piece("-> {func} (crashed here)", user_frames[1][2])
             /\ Cardinality(ChainPieces) = 2 + Min2(3, Len(user_frames) - 1)

C7_Witness ==
    /\ pc = "return" /\ signal_detected # <<>>
    /\ Len(user_frames) = 5
    /\ report[7].v = <<"f","4">> /\ report[10].v = <<"f","1">> /\ report[11].v = <<"f","0">>

(* C8: for k >= 2 user frames the lines of the call chain refer to pairwise
   different user frames. *)
C8_ChainFramesDistinct ==
    (/\ pc = "return" /\ signal_detected # <<>> /\ Len(user_frames) >= 2
     /\ \A a, b \in 1..Len(user_frames) : a # b => user_frames[a][2] # user_frames[b][2])
        => \A a, b \in ChainPieces : a # b => report[a].v # report[b].v

\* s.endswith(suf)
EndsWith(s, suf) ==
    Len(suf) <= Len(s) /\ SubSeq(s, Len(s) - Len(suf) + 1, Len(s)) = suf

\* the conditions of the claim other than the one on ".so"
ListedCondition(func, file) ==
    \/ \E r \in {<<"/","u","s","r">>, <<"/","l","i","b">>} : StartsWith(file, r)
    \/ \E g \in {<<"s","y","s","d","e","p","s">>, <<"m","a","l","l","o","c">>, <<"l","i","b","c">>, <<"l","i","b","s","t","d","c","+","+">>, <<"l","i","b","p","t","h","r","e","a","d">>,
                 <<"l","d","-","l","i","n","u","x">>, <<"c","s","u">>, <<"v","g","_","p","r","e","l","o","a","d">>, <<"l","i","n","u","x","-","g","n","u">>} : Contains(g, file)
    \/ \E q \in {<<"_","_","G","I","_">>, <<"_","_","l","i","b","c","_">>, <<"s","t","d",":",":">>, <<"o","p","e","r","a","t","o","r">>} : StartsWith(func, q)

(* C9, as claimed: a frame is in the library bucket if and only if a listed
   condition holds or its path ends with ".so". *)
C9_LibraryIffPathEndsWithSo ==
    (pc = "return" /\ signal_detected # <<>>) =>
        /\ \A n \in 1..Len(library_frames) :
             ListedCondition(library_frames[n][2], library_frames[n][3])
             \/ EndsWith(library_frames[n][3], <<".","s","o">>)
        /\ \A n \in 1..Len(user_frames) :
             ~(ListedCondition(user_frames[n][2], user_frames[n][3])
               \/ EndsWith(user_frames[n][3], <<".","s","o">>))

(* C9, amended: a frame is in the library bucket if and only if a listed
   condition holds or its path contains ".so" anywhere; a frame whose path has
   ".so" in the middle only is a library frame. *)
C9_LibraryIffPathContainsSo ==
    (pc = "return" /\ signal_detected # <<>>) =>
        /\ \A n \in 1..Len(library_frames) :
             ListedCondition(library_frames[n][2], library_frames[n][3])
             \/ Contains(<<".","s","o">>, library_frames[n][3])
        /\ \A n \in 1..Len(user_frames) :
             ~(ListedCondition(user_frames[n][2], user_frames[n][3])
               \/ Contains(<<".","s","o">>, user_frames[n][3]))

C9_Witness ==
    /\ pc = "return" /\ signal_detected # <<>>
    /\ Len(library_frames) = 1
    /\ library_frames[1][3] = <<"/","h","o","m","e","/","u","/","m","y",".","s","o","l","v","e","r","/","a",".","c">>
    /\ Len(user_frames) = 1

HintTerms == {<<"s","t","d",":",":">>, <<"_","_","G","I","_">>, <<"_","_","l","i","b","c","_">>}

\* the text the hint gives for a library frame
LookText(e) == e[2] \o <<" ","a","t"," ">> \o e[3] \o <<":">> \o e[4]

\* the report of a crash with library frames only: the generic explanation and
\* at most one hint, which names the first of the eligible frames
LibraryOnlyReport(eligible) ==
    /\ report[2] = Piece("The crash happened in a system library", <<>>)
    /\ Cardinality(Pieces("Look at this code: {func} at {file}:{line}")) <= 1
    /\ (eligible = {}) <=> (Pieces("Look at this code: {func} at {file}:{line}") = {})
    /\ \A n \in Pieces("Look at this code: {func} at {file}:{line}") :
         report[n].v = LookText(library_frames[Min(eligible)])

(* C10, as claimed: with library frames only, the hint names the first library
   frame whose function name does not start with std::, __GI_ or __libc_. *)
C10_HintSkipsPrefixesOnly ==
    (pc = "return" /\ signal_detected # <<>> /\ user_frames = <<>> /\ library_frames # <<>>)
        => LibraryOnlyReport({i \in 1..Len(library_frames) :
                                \A t \in HintTerms : ~StartsWith(library_frames[i][2], t)})

(* C10, amended: with library frames only, the report has the generic
   explanation and at most one hint; the hint names the first library frame
   whose function text contains none of std::, __GI_, __libc_ at any position,
   and is absent only when every library frame's function text contains one. *)
C10_HintSkipsContainedTerms ==
    (pc = "return" /\ signal_detected # <<>> /\ user_frames = <<>> /\ library_frames # <<>>)
        => LibraryOnlyReport({i \in 1..Len(library_frames) :
                                \A t \in HintTerms : ~Contains(t, library_frames[i][2])})

C10_Witness ==
    /\ pc = "return" /\ user_frames = <<>> /\ Len(library_frames) = 2
    /\ library_frames[1][2] = <<"w","r","a","p","_","_","G","I","_","x">>
    /\ \E n \in Pieces("Look at this code: {func} at {file}:{line}") :
         report[n].v = LookText(library_frames[2])

(* C5, as claimed: every call of run_gdb spawns exactly one debugger process
   and returns a text: stdout + stderr, or the "timed out", "not installed" or
   failure text. *)
C5_ExactlyOneProcessPerCall ==
    /\ (pc = "exit" /\ spawn_calls = 1) => printed[Len(printed)] = report
    /\ pc = "returned" =>
         /\ proc \in {"exited", "killed"}
         /\ output \in {stdout \o stderr, TimedOutText, NotInstalledText,
                        FailedPrefix \o ExcText(raised)}

(* C5, amended: run_gdb calls subprocess.run once and never again, which spawns
   at most one debugger process: exactly one when the launch succeeds, none
   when the executable is absent or the launch fails otherwise.  Unless it is
   interrupted, the call returns a text: stdout + stderr if the debugger ended,
   the "timed out" text if the timeout expired (the debugger then killed and
   reaped), the "not installed" text if the executable is absent, and the
   failure text with the description for any other failure; no exception of
   the launch leaves run_gdb and no debugger is left running. *)
C5_RunGdbReturnsText ==
    /\ spawn_calls <= 1
    /\ proc # "none" => spawn_calls = 1
    /\ uncaught \notin {"TimeoutExpired", "FileNotFoundError", "PermissionError",
                        "UnicodeDecodeError"}
    /\ pc = "exit" => proc # "running"
    /\ (pc = "exit" /\ spawn_calls = 1) => printed[Len(printed)] \in {report, FarewellMsg}
    /\ pc = "returned" =>
         /\ spawn_calls = 1
         /\ raised = "none" => proc = "exited" /\ output = stdout \o stderr
         /\ raised = "TimeoutExpired" =>
              proc = "killed" /\ elapsed = Timeout /\ output = TimedOutText
         /\ raised = "FileNotFoundError" => proc = "none" /\ output = NotInstalledText
         /\ raised = "PermissionError" =>
              proc = "none" /\ output = FailedPrefix \o ExcText(raised)
         /\ raised = "UnicodeDecodeError" =>
              proc = "killed" /\ output = FailedPrefix \o ExcText(raised)

C5_Witness ==
    /\ pc = "returned" /\ raised = "TimeoutExpired"
    /\ proc = "killed" /\ spawn_calls = 1
    /\ output = TimedOutText

(* C6: every command line ends normally unless interrupted: a numeric first
   argument prints the rejection and starts no debugger, "--long" among the
   arguments enters the monitoring mode, any other non-empty command line makes
   one launch with timeout 30 and prints the report, and an interrupt prints
   the farewell and exits with status 0. *)
C6_EveryCommandLineEndsNormally ==
    pc = "exit" =>
        /\ uncaught = "none"
        /\ exit_status = 0
        /\ (argv # <<>> /\ IsDigitStr(argv[1])) =>
             spawn_calls = 0 /\ printed[Len(printed)] \in {RejectionMsg, FarewellMsg}
        /\ (argv # <<>> /\ ~IsDigitStr(argv[1]) /\ \A i \in 1..Len(argv) : argv[i] # LongFlag) =>
             \/ printed[Len(printed)] = FarewellMsg
             \/ spawn_calls = 1 /\ printed[Len(printed)] = report

====
